---- MODULE Spec2Model ----
(***************************************************************************)
(* A model of zato.discourse_importer.run: the mbox importer that reads an *)
(* archive in three passes, reconciles its authors with the accounts of a  *)
(* Discourse instance, creates the missing accounts and replays the        *)
(* threads as topics and replies.                                          *)
(*                                                                         *)
(* Strings the code takes apart (emails, user names) are sequences of      *)
(* one-character strings.  Subjects, bodies and References lines are       *)
(* sequences of tokens: a token is a run of characters the code treats as  *)
(* a unit (a word, a marker it splits on, one whitespace character).       *)
(* The remote calls are recorded, in the order they are issued, in calls.  *)
(***************************************************************************)
EXTENDS Integers, Sequences, FiniteSets, TLC

(***************************************************************************)
(* Bounds of the model.                                                    *)
(***************************************************************************)
\* The archive holds at most MaxRecords records.
MaxRecords == 3
\* rand_suffix is range(1, 100) in the code; the model draws from
\* 1..MaxSuffix so that a collision group can exhaust the range.
MaxSuffix == 2
\* At most MaxFailures remote calls of a run fail.
MaxFailures == 1

(***************************************************************************)
(* Python values.                                                          *)
(***************************************************************************)
\* None, where a string is expected (a missing Message-ID header).
None == "None"
\* None, where a sequence of tokens or lines is expected (a missing Subject
\* or References header).
NoneSeq == <<None>>
\* parsedate() returns None for a missing or unparseable Date header; the
\* dates it does return are modelled as the numbers 1, 2, ...
NoDate == 0
\* create_topic() returns None when the response holds no post.topic_id;
\* `if topic_id:` treats None and 0 alike.  The remote's ids are positive.
NoTopic == 0
\* http.client.OK
OK == 200

WS == {" ", "\n"}

(***************************************************************************)
(* Sequence helpers.                                                       *)
(***************************************************************************)
\* s.replace(tok, ''): s without the occurrences of tok.
Without(s, tok) ==
    LET F[i \in 0..Len(s)] ==
            IF i = 0 THEN <<>>
            ELSE IF s[i] # tok THEN Append(F[i-1], s[i]) ELSE F[i-1]
    IN F[Len(s)]

\* Python's `x in s` for strings: x is a contiguous part of s.
Contains(s, x) ==
    \E i \in 0..(Len(s) - Len(x)) : SubSeq(s, i + 1, i + Len(x)) = x

\* s.split(sep)[0] for a one-token separator: the part before its first
\* occurrence, the whole of s when it does not occur.
SplitFirst(s, sep) ==
    IF \E i \in DOMAIN s : s[i] = sep
    THEN SubSeq(s, 1, (CHOOSE i \in DOMAIN s :
                          s[i] = sep /\ \A j \in 1..(i-1) : s[j] # sep) - 1)
    ELSE s

\* s.strip()
Strip(s) ==
    IF \A i \in DOMAIN s : s[i] \in WS THEN <<>>
    ELSE LET lo == CHOOSE i \in DOMAIN s :
                       s[i] \notin WS /\ \A j \in 1..(i-1) : s[j] \in WS
             hi == CHOOSE i \in DOMAIN s :
                       s[i] \notin WS /\ \A j \in (i+1)..Len(s) : s[j] \in WS
         IN SubSeq(s, lo, hi)

\* ' '.join(s.split()): whitespace runs collapse to one blank, leading and
\* trailing whitespace goes.
CollapseWS(s) ==
    LET t == Strip(s)
        F[i \in 0..Len(t)] ==
            IF i = 0 THEN <<>>
            ELSE IF t[i] \in WS
                 THEN IF t[i-1] \in WS THEN F[i-1] ELSE Append(F[i-1], " ")
                 ELSE Append(F[i-1], t[i])
    IN F[Len(t)]

\* The order of Python's str comparison on the characters the model uses
\* (their code points: digits < '@' < lower-case letters).
Ord(c) ==
    CASE c = "1" -> 49 [] c = "2" -> 50 [] c = "3" -> 51
      [] c = "@" -> 64
      [] c = "A" -> 65
      [] c = "a" -> 97 [] c = "x" -> 120 [] c = "y" -> 121 [] c = "z" -> 122
      [] OTHER -> 0

\* s < t for two strings.
StrLess(s, t) ==
    \E i \in 1..(Len(t)) :
        /\ \A j \in 1..(i-1) : j <= Len(s) /\ s[j] = t[j]
        /\ \/ i = Len(s) + 1
           \/ i <= Len(s) /\ Ord(s[i]) < Ord(t[i])

\* str.lower()
Lower(s) == [i \in DOMAIN s |-> IF s[i] = "A" THEN "a" ELSE s[i]]

\* '{}'.format(n) for 1 <= n <= 99.
Digit(d) == CASE d = 0 -> "0" [] d = 1 -> "1" [] d = 2 -> "2" [] d = 3 -> "3"
              [] d = 4 -> "4" [] d = 5 -> "5" [] d = 6 -> "6" [] d = 7 -> "7"
              [] d = 8 -> "8" [] d = 9 -> "9"
Str(n) == IF n < 10 THEN <<Digit(n)>> ELSE <<Digit(n \div 10), Digit(n % 10)>>

(***************************************************************************)
(* Raw records of the archive.  A record is a header map and a payload:    *)
(*   From        [name, addr]: what parseaddr() makes of the From header   *)
(*   Subject     NoneSeq, or the subject's tokens                          *)
(*   MessageID   None, or the id                                           *)
(*   Date        what parsedate() makes of the Date header                 *)
(*   InReplyTo   whether the record has an In-Reply-To header              *)
(*   References  the lines of the References header (<<>>: no header, or   *)
(*               an empty one; `if refs:` treats both alike), each line a  *)
(*               sequence of tokens: ids and whitespace                    *)
(*   payload     [multipart, cte, data, parts]                             *)
(*   pos         the record's place in the archive (set by Archives)       *)
(***************************************************************************)
\* Tokens of subjects and bodies.
ListTag    == "[Zato-discuss] "
Migrated   == "(Migrated) "
Banner     == "\n<b>(This message has been automatically imported from the retired mailing list)</b>\n\n"
Cheers     == "cheers,"
SigDash    == "-- "
Footer     == "_______________"

Leaf(cte, data) == [multipart |-> FALSE, cte |-> cte, data |-> data, parts |-> <<>>]
Multi(cte, parts) == [multipart |-> TRUE, cte |-> cte, data |-> <<>>, parts |-> parts]

\* base64.decodestring, on the encoded words the model uses.
b64decode(data) ==
    [i \in DOMAIN data |->
        CASE data[i] = "aGVsbG8=" -> "hello"
          [] data[i] = "IA==" -> " "
          [] OTHER -> "?"]

\* Message._b64decode: [ok, body].  bytes(body, 'utf8') raises TypeError
\* when body is the part list of a multipart message.
_b64decode(part) ==
    IF part.cte = "base64"
    THEN IF part.multipart THEN [ok |-> FALSE, body |-> <<>>]
         ELSE [ok |-> TRUE, body |-> b64decode(part.data)]
    ELSE [ok |-> TRUE, body |-> part.data]

\* The while loop of Message.get_body: descend into the first part as long
\* as the payload is a list.
RECURSIVE FirstTextPart(_)
FirstTextPart(part) ==
    IF ~_b64decode(part).ok THEN _b64decode(part)
    ELSE IF part.multipart THEN FirstTextPart(part.parts[1])
    ELSE _b64decode(part)

\* Message.get_body: [ok, body].
get_body(raw, list_footer_start) ==
    LET d == FirstTextPart(raw.payload)
    IN IF ~d.ok THEN d
       ELSE [ok |-> TRUE,
             body |-> Strip(SplitFirst(SplitFirst(SplitFirst(d.body,
                          list_footer_start), Cheers), SigDash))]

\* What from_mbox_object gives: a Message, None, or an exception.
Returned(msg) == [kind |-> "msg", msg |-> msg]
Absent == [kind |-> "none", msg |-> <<>>]
Raised(what) == [kind |-> what, msg |-> <<>>]

\* The guard of line 197: `skip_subject and skip_subject in subject`.
\* `x in None` raises TypeError.
SubjectSkipped(subject, skip_subject) ==
    IF skip_subject = <<>> THEN "no"
    ELSE IF subject = NoneSeq THEN "TypeError"
    ELSE IF Contains(subject, skip_subject) THEN "yes" ELSE "no"

\* Message.from_mbox_object.  The Message's rec is not a field of the code:
\* it records which record the Message was parsed from.
from_mbox_object(raw, from_, list_footer_start, skip_subject) ==
    LET skipped == SubjectSkipped(raw.Subject, skip_subject)
        subject == CollapseWS(Without(raw.Subject, ListTag))
        b       == get_body(raw, list_footer_start)
        top     == ~raw.InReplyTo
    IN IF skipped = "TypeError" THEN Raised("TypeError")
       ELSE IF skipped = "yes" THEN Absent
       ELSE IF raw.Subject = NoneSeq THEN Absent
       ELSE IF ~b.ok THEN Raised("TypeError")
       ELSE IF b.body = <<>> THEN Absent
       ELSE Returned([id           |-> raw.MessageID,
                      from_        |-> from_,
                      subject      |-> <<Migrated>> \o subject,
                      body         |-> IF top THEN <<Banner>> \o b.body ELSE b.body,
                      children     |-> <<>>,
                      is_top_level |-> top,
                      date         |-> raw.Date,
                      rec          |-> raw.pos])

\* Importer._get_name_from
_get_name_from(raw) == <<raw.From.name, Lower(raw.From.addr)>>

(***************************************************************************)
(* The inputs: the records an archive is made of, and the settings.        *)
(***************************************************************************)
Rec(name, addr, subject, id, date, irt, refs, payload) ==
    [From |-> [name |-> name, addr |-> addr], Subject |-> subject,
     MessageID |-> id, Date |-> date, InReplyTo |-> irt, References |-> refs,
     payload |-> payload, pos |-> 0]

ax  == <<"a", "@", "x">>
Ay  == <<"A", "@", "y">>
ay  == <<"a", "@", "y">>
az  == <<"a", "@", "z">>
a1z == <<"a", "1", "@", "z">>

\* A thread root, tagged by the list.
R1 == Rec("Al", ax, <<ListTag, "hello">>, "m1", 2, FALSE, <<>>,
          Leaf("7bit", <<"hello">>))
\* A root with a later id and an earlier date, a signature, and an address
\* in upper case.
R2 == Rec("Bo", Ay, <<"hello", " ", " ", "again">>, "m2", 1, FALSE, <<>>,
          Leaf("7bit", <<"hi", "\n", SigDash, "\n", "Bo">>))
\* A reply citing two ancestors, one per line (the second line is a folded
\* continuation), as multipart with a base64 first part.
R3 == Rec("Cy", az, <<ListTag, "re", " ", "hello">>, "m3", 3, TRUE,
          << <<"m1">>, <<" ", "m2">> >>,
          Multi("7bit", <<Leaf("base64", <<"aGVsbG8=", "IA==">>),
                          Leaf("7bit", <<"<p>hello</p>">>)>>))
\* A reply without Message-ID and Date, citing m1 twice and m3, and two ids
\* on one line.
R4 == Rec("Di", a1z, <<"re", " ", "hello">>, None, NoDate, TRUE,
          << <<"m1">>, <<"m3">>, <<"m1">>, <<"m1", " ", "m2">> >>,
          Leaf("7bit", <<"me", " ", "too", "\n", Footer, "list", "info">>))
\* A record without Subject, citing m1.
R5 == Rec("Al", ax, NoneSeq, "m2", 1, TRUE, << <<"m1">> >>,
          Leaf("7bit", <<"hello">>))
\* A root whose subject holds the excluded word, reusing the id m1, citing
\* m2 and m3.
R6 == Rec("Cy", az, <<"spam", " ", "offer">>, "m1", 2, FALSE,
          << <<"m2">>, <<"m3">> >>,
          Leaf("7bit", <<"buy">>))
\* A reply whose body is empty once the sign-off is cut, citing m1.
R7 == Rec("Bo", ay, <<"re", " ", "hello">>, "m3", 1, TRUE, << <<"m1">> >>,
          Leaf("7bit", <<" ", "\n", Cheers, "\n", "Bo">>))

RecordPool == {R1, R2, R3, R4, R5, R6, R7}

\* The archives: up to MaxRecords records of the pool, each knowing its place.
Archives ==
    UNION {{[i \in 1..n |-> [a[i] EXCEPT !.pos = i]] : a \in [1..n -> RecordPool]}
              : n \in 0..MaxRecords}

\* The settings handle() reads: the excluded subject word, the senders to
\* ignore, the part every sender's address must hold, the footer marker.
SkipSubjects  == {<<>>, <<"spam">>}
EmailsIgnore  == {{}, {az}}
EmailsRequire == {<<>>, <<"@", "z">>}

(***************************************************************************)
(* Importer.read_mbox: the three passes over the archive.                  *)
(***************************************************************************)
\* Line 285: the senders the first pass skips.
SenderSkipped(from_, ignore, require) ==
    (from_ \in ignore) \/ ~Contains(from_, require)

\* First pass: mbox_users, the display name of every eligible sender, the
\* last record of an address deciding its name.
CollectUsers(box, ignore, require) ==
    LET F[i \in 0..Len(box)] ==
            IF i = 0 THEN <<>>
            ELSE LET nf == _get_name_from(box[i])
                 IN IF SenderSkipped(nf[2], ignore, require) THEN F[i-1]
                    ELSE (nf[2] :> nf[1]) @@ F[i-1]
    IN F[Len(box)]

\* mbox_messages is a dict: here the sequence of its values in insertion
\* order, each key (the Message's id) occurring once.
HasKey(msgs, id) == \E i \in DOMAIN msgs : msgs[i].id = id
KeyIndex(msgs, id) == CHOOSE i \in DOMAIN msgs : msgs[i].id = id

\* self.mbox_messages[msg.id] = msg: a key already there keeps its place.
DictSet(msgs, msg) ==
    IF HasKey(msgs, msg.id) THEN [msgs EXCEPT ![KeyIndex(msgs, msg.id)] = msg]
    ELSE Append(msgs, msg)

\* Second pass: [msgs, exc], exc naming the exception that ended the pass
\* ("" when none did).
CollectMessages(box, users, footer, skip) ==
    LET F[i \in 0..Len(box)] ==
            IF i = 0 THEN [msgs |-> <<>>, exc |-> ""]
            ELSE LET prev  == F[i-1]
                     from_ == _get_name_from(box[i])[2]
                     r     == from_mbox_object(box[i], from_, footer, skip)
                 IN IF prev.exc # "" THEN prev
                    ELSE IF from_ \notin DOMAIN users THEN prev
                    ELSE IF r.kind = "msg"
                         THEN [prev EXCEPT !.msgs = DictSet(prev.msgs, r.msg)]
                    ELSE IF r.kind = "none" THEN prev
                    ELSE [prev EXCEPT !.exc = r.kind]
    IN F[Len(box)]

\* `ref in self.mbox_messages` for a stripped line of the References header:
\* the line is one id, and that id is a key.  The key None (a Message
\* without Message-ID) equals no line.
RefKey(ref) == IF Len(ref) = 1 THEN ref[1] ELSE None
RefKnown(msgs, ref) == RefKey(ref) # None /\ HasKey(msgs, RefKey(ref))

\* Lines 311-317 for one record: every line that is a key parses the record
\* again and appends the Message, if there is one, to that key's children.
AttachRecord(state, raw, footer, skip) ==
    LET refs == raw.References
        G[k \in 0..Len(refs)] ==
            IF k = 0 THEN state
            ELSE LET prev == G[k-1]
                     ref  == Strip(refs[k])
                     r    == from_mbox_object(raw, _get_name_from(raw), footer, skip)
                     at   == KeyIndex(prev.msgs, RefKey(ref))
                 IN IF prev.exc # "" THEN prev
                    ELSE IF ~RefKnown(prev.msgs, ref) THEN prev
                    ELSE IF r.kind = "msg"
                         THEN [prev EXCEPT !.msgs[at].children = Append(@, r.msg)]
                    ELSE IF r.kind = "none" THEN prev
                    ELSE [prev EXCEPT !.exc = r.kind]
    IN G[Len(refs)]

\* Third pass: [msgs, exc].
AttachChildren(box, msgs, footer, skip) ==
    LET F[i \in 0..Len(box)] ==
            IF i = 0 THEN [msgs |-> msgs, exc |-> ""]
            ELSE IF F[i-1].exc # "" THEN F[i-1]
            ELSE AttachRecord(F[i-1], box[i], footer, skip)
    IN F[Len(box)]

(***************************************************************************)
(* Sorting.                                                                *)
(***************************************************************************)
\* date < date as Python evaluates it: comparing with None raises TypeError.
DateComparable(s) == Len(s) < 2 \/ \A i \in DOMAIN s : s[i].date # NoDate

\* Message.__lt__
Message_lt(m, other) == m.date < other.date

\* sorted() of Messages by date: stable and ascending, each element going
\* before the first element already placed that it is less than.
SortedByDate(s) ==
    LET Insert(t, m) ==
            LET n == IF \E i \in DOMAIN t : Message_lt(m, t[i])
                     THEN (CHOOSE i \in DOMAIN t :
                              /\ Message_lt(m, t[i])
                              /\ \A j \in 1..(i-1) : ~Message_lt(m, t[j])) - 1
                     ELSE Len(t)
            IN SubSeq(t, 1, n) \o <<m>> \o SubSeq(t, n + 1, Len(t))
        F[i \in 0..Len(s)] == IF i = 0 THEN <<>> ELSE Insert(F[i-1], s[i])
    IN F[Len(s)]

(***************************************************************************)
(* The remote service.  A response is what requests hands to Client._http: *)
(* its status, whether its Content-Type is application/json, whether it    *)
(* sets the _forum_session cookie, and the shape of its body:              *)
(*   "users"  a JSON list of {id, username}      (listActiveUsers)         *)
(*   "email"  a JSON object with "email"          (getUserEmail)           *)
(*   "post"   a JSON object with post.topic_id    (createTopic)            *)
(*   "obj"    another JSON object, such as {"errors": [...]}               *)
(*   "text"   a body that is not JSON; "empty" an empty one                *)
(*   "unreachable"  no response: requests raises ConnectionError           *)
(***************************************************************************)
Response(status, json, body) ==
    [status |-> status, json |-> json, body |-> body, cookie |-> FALSE,
     users |-> <<>>, email |-> <<>>, topic_id |-> NoTopic]

Unreachable == Response(0, FALSE, "unreachable")

ConnectResponses ==
    {[Response(OK, FALSE, "text") EXCEPT !.cookie = TRUE],
     [Response(500, FALSE, "text") EXCEPT !.cookie = TRUE],
     Response(500, FALSE, "text"),
     Response(OK, TRUE, "obj"),
     Unreachable}

PingResponses ==
    {Response(OK, TRUE, "obj"), Response(500, FALSE, "text"), Unreachable}

\* The accounts the remote may hold already.
RemoteUserLists == {<<>>, <<[id |-> 1, username |-> <<"a">>]>>}

GetUsersResponses ==
    {[Response(OK, TRUE, "users") EXCEPT !.users = l] : l \in RemoteUserLists}
    \cup {Response(500, TRUE, "obj"), Response(500, FALSE, "empty"),
          Response(500, FALSE, "text"), Unreachable}

GetUserEmailResponses ==
    {[Response(OK, TRUE, "email") EXCEPT !.email = ax],
     Response(500, TRUE, "obj"), Response(500, FALSE, "text"), Unreachable}

CreateUserResponses ==
    {Response(OK, TRUE, "obj"), Response(500, FALSE, "text"), Unreachable}

\* The topic id of a successful post: the topic replied to, or a new
\* topic's, the remote numbering its topics 1, 2, ...
CreateTopicResponses(log, topic_id) ==
    LET made == {i \in DOMAIN log : /\ log[i].op = "createTopic"
                                    /\ log[i].topic_id = NoTopic
                                    /\ log[i].resp.body = "post"}
        t    == IF topic_id # NoTopic THEN topic_id ELSE 1 + Cardinality(made)
    IN {[Response(OK, TRUE, "post") EXCEPT !.topic_id = t],
        Response(422, TRUE, "obj"), Response(500, FALSE, "text"), Unreachable}

\* Spec section 6: a call fails when its status is not a success or its body
\* is not what the operation returns.
Failed(op, resp) ==
    \/ resp.status # OK
    \/ op = "connect" /\ (resp.json \/ ~resp.cookie)
    \/ op = "listActiveUsers" /\ resp.body # "users"
    \/ op = "getUserEmail" /\ resp.body # "email"
    \/ op = "createTopic" /\ resp.body # "post"

\* Client._http: what the caller gets, the Response itself or the parsed
\* JSON body.
_http(resp, needs_raw_response) ==
    IF needs_raw_response \/ ~resp.json THEN "response" ELSE "json"

\* One remote call, as the log of calls keeps it.  rec, msg_id, date, reply
\* and suffix are not sent: they tell which Message a post came from and
\* which suffix a user name was given.
Call(op, resp) ==
    [op |-> op, resp |-> resp, failed |-> Failed(op, resp),
     name |-> "", user_name |-> <<>>, email |-> <<>>, suffix |-> 0,
     title |-> <<>>, raw |-> <<>>, topic_id |-> NoTopic,
     rec |-> 0, msg_id |-> "", date |-> NoDate, reply |-> FALSE, under |-> ""]

(***************************************************************************)
(* The state: the Importer's fields, where run() stands (pc), the locals   *)
(* of the loops that issue remote calls, and the calls issued so far.      *)
(***************************************************************************)
VARIABLES
    mbox, list_footer_start, emails_ignore, emails_require, skip_subject,
    cookie, mbox_users, mbox_messages, missing_users, discourse_users,
    pc,           \* the statement run() is at; "done", "exit1" (sys.exit(1))
                  \* and "raised" (an uncaught exception) end the run
    error,        \* the exception or message that ended the run
    calls,        \* the remote calls issued, in order
    existing, items,                        \* set_missing_users
    duplicates, used, todo, suffix,         \* add_missing_users
    order, topic_id, children               \* create_topics

config == <<mbox, list_footer_start, emails_ignore, emails_require, skip_subject>>
fields == <<cookie, mbox_users, mbox_messages, missing_users, discourse_users>>
users_locals == <<existing, items, duplicates, used, todo, suffix>>
topics_locals == <<order, topic_id, children>>
vars == <<config, fields, pc, error, calls, users_locals, topics_locals>>

\* range(1, 100) in the code.
rand_suffix == 1..MaxSuffix

Failures(log) == Cardinality({i \in DOMAIN log : log[i].failed})
Allowed(op, resp) == Failed(op, resp) => Failures(calls) < MaxFailures

Raise(what) == pc' = "raised" /\ error' = what

\* run() with the replay before the account creation.
RunAfter_TopicsFirst(stmt, missing) ==
    CASE stmt = "connect" -> "ping"
      [] stmt = "ping" -> "read_mbox"
      [] stmt = "read_mbox" -> "set_missing_users"
      [] stmt = "set_missing_users" -> "create_topics"
      [] stmt = "create_topics" ->
            IF missing # {} THEN "add_missing_users" ELSE "done"
      [] stmt = "add_missing_users" -> "done"

\* Importer.run, lines 402-409: the statement that follows each statement of
\* run(), add_missing_users being called only if set_missing_users returned
\* True (there are missing users).
RunAfter(stmt, missing) ==
    CASE stmt = "connect" -> "ping"
      [] stmt = "ping" -> "read_mbox"
      [] stmt = "read_mbox" -> "set_missing_users"
      [] stmt = "set_missing_users" ->
            IF missing # {} THEN "add_missing_users" ELSE "create_topics"
      [] stmt = "add_missing_users" -> "create_topics"
      [] stmt = "create_topics" -> "done"

\* Importer.__init__ and Client.__init__
Init ==
    /\ mbox \in Archives
    /\ list_footer_start = Footer
    /\ emails_ignore \in EmailsIgnore
    /\ emails_require \in EmailsRequire
    /\ skip_subject \in SkipSubjects
    /\ cookie = "<no-cookie>"
    /\ mbox_users = <<>>
    /\ mbox_messages = <<>>
    /\ missing_users = {}
    /\ discourse_users = {}
    /\ pc = "connect"
    /\ error = ""
    /\ calls = <<>>
    /\ existing = {} /\ items = <<>>
    /\ duplicates = {} /\ used = {} /\ todo = <<>> /\ suffix = 0
    /\ order = <<>> /\ topic_id = NoTopic /\ children = <<>>

\* Client.connect: self._get('/').cookies['_forum_session'].  Parsed JSON
\* has no cookies (AttributeError); a Response without the cookie raises
\* KeyError.  The status is not looked at.
connect ==
    /\ pc = "connect"
    /\ \E resp \in ConnectResponses :
        /\ Allowed("connect", resp)
        /\ calls' = Append(calls, Call("connect", resp))
        /\ IF resp.body = "unreachable"
           THEN Raise("ConnectionError") /\ UNCHANGED cookie
           ELSE IF _http(resp, FALSE) = "json"
           THEN Raise("AttributeError") /\ UNCHANGED cookie
           ELSE IF ~resp.cookie
           THEN Raise("KeyError") /\ UNCHANGED cookie
           ELSE /\ cookie' = "_forum_session"
                /\ pc' = RunAfter("connect", missing_users) /\ UNCHANGED error
    /\ UNCHANGED <<config, mbox_users, mbox_messages, missing_users,
                   discourse_users, users_locals, topics_locals>>

\* Client.ping
ping ==
    /\ pc = "ping"
    /\ \E resp \in PingResponses :
        /\ Allowed("healthCheck", resp)
        /\ calls' = Append(calls, Call("healthCheck", resp))
        /\ IF resp.body = "unreachable" THEN Raise("ConnectionError")
           ELSE IF resp.status # OK THEN pc' = "exit1" /\ error' = "did not return OK"
           ELSE pc' = RunAfter("ping", missing_users) /\ UNCHANGED error
    /\ UNCHANGED <<config, fields, users_locals, topics_locals>>

\* Importer.read_mbox, all three passes.
read_mbox ==
    /\ pc = "read_mbox"
    /\ LET users == CollectUsers(mbox, emails_ignore, emails_require)
           p2    == CollectMessages(mbox, users, list_footer_start, skip_subject)
           p3    == AttachChildren(mbox, p2.msgs, list_footer_start, skip_subject)
       IN IF mbox = <<>>
          THEN /\ pc' = "exit1" /\ error' = "does not exist or is empty"
               /\ UNCHANGED <<mbox_users, mbox_messages>>
          ELSE IF p2.exc # ""
          THEN /\ Raise(p2.exc)
               /\ mbox_users' = users /\ mbox_messages' = p2.msgs
          ELSE /\ mbox_users' = users
               /\ mbox_messages' = p3.msgs
               /\ IF p3.exc # "" THEN Raise(p3.exc)
                  ELSE pc' = RunAfter("read_mbox", missing_users) /\ UNCHANGED error
    /\ UNCHANGED <<config, cookie, missing_users, discourse_users, calls,
                   users_locals, topics_locals>>

\* Client.get_users, called at line 328.  The loop iterates over what it
\* gets: the users of a JSON list; the keys of a JSON object and the chunks
\* of a Response's content, both of which item['id'] fails on (TypeError);
\* nothing at all for a Response with an empty body.
get_users ==
    /\ pc = "set_missing_users"
    /\ \E resp \in GetUsersResponses :
        /\ Allowed("listActiveUsers", resp)
        /\ calls' = Append(calls, Call("listActiveUsers", resp))
        /\ IF resp.body = "unreachable"
           THEN Raise("ConnectionError") /\ UNCHANGED items
           ELSE IF resp.body \in {"obj", "text"}
           THEN Raise("TypeError") /\ UNCHANGED items
           ELSE /\ items' = (IF _http(resp, FALSE) = "json" THEN resp.users ELSE <<>>)
                /\ pc' = "get_user_email" /\ UNCHANGED error
    /\ existing' = {}
    /\ UNCHANGED <<config, fields, duplicates, used, todo, suffix, topics_locals>>

\* Lines 329-331, one turn of the loop: Client.get_user_email and the two
\* sets.  ['email'] on a Response raises TypeError, on a JSON object
\* without it KeyError.
get_user_email ==
    /\ pc = "get_user_email"
    /\ items # <<>>
    /\ \E resp \in GetUserEmailResponses :
        /\ Allowed("getUserEmail", resp)
        /\ calls' = Append(calls, [Call("getUserEmail", resp)
                                     EXCEPT !.user_name = Head(items).username])
        /\ IF resp.body = "unreachable"
           THEN Raise("ConnectionError") /\ UNCHANGED <<existing, discourse_users, items>>
           ELSE IF _http(resp, FALSE) = "response"
           THEN Raise("TypeError") /\ UNCHANGED <<existing, discourse_users, items>>
           ELSE IF resp.body # "email"
           THEN Raise("KeyError") /\ UNCHANGED <<existing, discourse_users, items>>
           ELSE /\ existing' = existing \cup {resp.email}
                /\ discourse_users' = discourse_users \cup {Head(items).username}
                /\ items' = Tail(items)
                /\ UNCHANGED <<pc, error>>
    /\ UNCHANGED <<config, cookie, mbox_users, mbox_messages, missing_users,
                   duplicates, used, todo, suffix, topics_locals>>

\* Lines 333-340: the rest of set_missing_users, once the loop is through.
set_missing_users ==
    /\ pc = "get_user_email"
    /\ items = <<>>
    /\ missing_users' = missing_users \cup {e \in DOMAIN mbox_users : e \notin existing}
    /\ pc' = RunAfter("set_missing_users", missing_users')
    /\ UNCHANGED <<config, cookie, mbox_users, mbox_messages, discourse_users,
                   error, calls, users_locals, topics_locals>>

(***************************************************************************)
(* Importer.add_missing_users                                              *)
(***************************************************************************)
\* Importer._get_username: email.split('@')[0]
_get_username(email) == SplitFirst(email, "@")

\* sorted() of a set of strings.
RECURSIVE SortedStrings(_)
SortedStrings(S) ==
    IF S = {} THEN <<>>
    ELSE LET m == CHOOSE x \in S : \A y \in S \ {x} : StrLess(x, y)
         IN <<m>> \o SortedStrings(S \ {m})

\* Lines 355-360: the candidates that more than one missing email has.
Duplicates(missing) ==
    {_get_username(e) : e \in
        {e \in missing : \E f \in missing : f # e /\ _get_username(f) = _get_username(e)}}

\* Lines 351-362, up to the loop over sorted(self.missing_users).
add_missing_users ==
    /\ pc = "add_missing_users"
    /\ duplicates' = Duplicates(missing_users)
    /\ used' = {}
    /\ todo' = SortedStrings(missing_users)
    /\ pc' = "user_loop"
    /\ UNCHANGED <<config, fields, error, calls, existing, items, suffix,
                   topics_locals>>

\* '{}{}'.format(user_name, suffix)
Suffixed(user_name, n) == user_name \o Str(n)

\* The test never finding the name taken.
NameTaken_Never(user_name, taken) == FALSE

\* Line 368: the test of the while loop.
NameTaken(user_name, taken) == user_name \in taken

\* Lines 363-366: the next email; a duplicate candidate draws its first
\* suffix.
next_user ==
    /\ pc = "user_loop"
    /\ IF _get_username(Head(todo)) \in duplicates
       THEN \E s \in rand_suffix : suffix' = s /\ pc' = "suffix_loop"
       ELSE suffix' = 0 /\ pc' = "create_user"
    /\ UNCHANGED <<config, fields, error, calls, existing, items, duplicates,
                   used, todo, topics_locals>>

\* Lines 368-369: the name is taken, draw again.
redraw ==
    /\ pc = "suffix_loop"
    /\ NameTaken(Suffixed(_get_username(Head(todo)), suffix), used)
    /\ \E s \in rand_suffix : suffix' = s
    /\ UNCHANGED <<config, fields, pc, error, calls, existing, items,
                   duplicates, used, todo, topics_locals>>

\* Lines 374-375: a name shorter than three characters gets '123'.
Padded(user_name) ==
    IF Len(user_name) < 3 THEN user_name \o <<"1", "2", "3">> ELSE user_name

\* Lines 371-380: the suffixed name is allocated, the name padded, the
\* account created.  create_user does not look at the response.  (The
\* password, uuid4().hex, is left out of the call.)
create_user ==
    /\ pc \in {"suffix_loop", "create_user"}
    /\ LET item      == Head(todo)
           candidate == _get_username(item)
           user_name == IF pc = "suffix_loop" THEN Suffixed(candidate, suffix)
                        ELSE candidate
       IN /\ pc = "suffix_loop" => ~NameTaken(user_name, used)
          /\ used' = (IF pc = "suffix_loop" THEN used \cup {user_name} ELSE used)
          /\ \E resp \in CreateUserResponses :
              /\ Allowed("createUser", resp)
              /\ calls' = Append(calls, [Call("createUser", resp) EXCEPT
                                           !.name = mbox_users[item],
                                           !.user_name = Padded(user_name),
                                           !.email = item,
                                           !.suffix = suffix])
              /\ IF resp.body = "unreachable"
                 THEN Raise("ConnectionError") /\ UNCHANGED todo
                 ELSE /\ todo' = Tail(todo)
                      /\ pc' = (IF Tail(todo) = <<>>
                                THEN RunAfter("add_missing_users", missing_users)
                                ELSE "user_loop")
                      /\ UNCHANGED error
    /\ UNCHANGED <<config, fields, existing, items, duplicates, suffix,
                   topics_locals>>

(***************************************************************************)
(* Importer.create_topics                                                  *)
(***************************************************************************)
\* The keys as they are, unsorted.
SortedMessages_Unsorted(msgs) == msgs

\* Line 386: the keys of mbox_messages sorted by their Messages, which
\* Message.__lt__ compares.
SortedMessages(msgs) == SortedByDate(msgs)

\* Line 395: sorted(msg.children, key=lambda x: x.date)
SortedChildren(msg) == SortedByDate(msg.children)

\* Every Message made a topic of, top-level or not.
Roots_All(msgs) == msgs

\* Line 390: the Messages create_topics makes topics of.
Roots(msgs) == SelectSeq(msgs, LAMBDA m : m.is_top_level)

\* Line 386, and the first turn of the loop's test at line 390.
create_topics ==
    /\ pc = "create_topics"
    /\ IF ~DateComparable(mbox_messages)
       THEN Raise("TypeError") /\ UNCHANGED order
       ELSE /\ order' = Roots(SortedMessages(mbox_messages))
            /\ pc' = (IF order' = <<>>
                      THEN RunAfter("create_topics", missing_users)
                      ELSE "topic_loop")
            /\ UNCHANGED error
    /\ UNCHANGED <<config, fields, calls, users_locals, topic_id, children>>

\* Client.create_topic's return value: .get('post', {}).get('topic_id') of
\* the parsed JSON; a Response has no get (AttributeError).
TopicIdOf(resp) == IF resp.body = "post" THEN resp.topic_id ELSE NoTopic

\* Lines 151-152: the request holds topic_id only `if topic_id`.
RequestTopicId(id) == IF id # NoTopic THEN id ELSE NoTopic

\* Lines 390-395: the topic of the next root, and its children sorted.
create_topic ==
    /\ pc = "topic_loop"
    /\ LET msg == Head(order)
       IN \E resp \in CreateTopicResponses(calls, NoTopic) :
           /\ Allowed("createTopic", resp)
           /\ calls' = Append(calls, [Call("createTopic", resp) EXCEPT
                                        !.title = msg.subject, !.raw = msg.body,
                                        !.rec = msg.rec, !.msg_id = msg.id,
                                        !.date = msg.date])
           /\ IF resp.body = "unreachable"
              THEN Raise("ConnectionError") /\ UNCHANGED <<order, topic_id, children>>
              ELSE IF _http(resp, FALSE) = "response"
              THEN Raise("AttributeError") /\ UNCHANGED <<order, topic_id, children>>
              ELSE /\ topic_id' = TopicIdOf(resp)
                   /\ IF ~DateComparable(msg.children)
                      THEN Raise("TypeError") /\ UNCHANGED <<order, children>>
                      ELSE /\ children' = SortedChildren(msg)
                           /\ order' = (IF children' = <<>> THEN Tail(order) ELSE order)
                           /\ pc' = (IF children' # <<>> THEN "child_loop"
                                     ELSE IF order' = <<>>
                                     THEN RunAfter("create_topics", missing_users)
                                     ELSE "topic_loop")
                           /\ UNCHANGED error
    /\ UNCHANGED <<config, fields, users_locals>>

\* Line 396: the next child of the root, posted with the root's topic_id.
create_reply ==
    /\ pc = "child_loop"
    /\ LET child == Head(children)
       IN \E resp \in CreateTopicResponses(calls, RequestTopicId(topic_id)) :
           /\ Allowed("createTopic", resp)
           /\ calls' = Append(calls, [Call("createTopic", resp) EXCEPT
                                        !.title = child.subject, !.raw = child.body,
                                        !.topic_id = RequestTopicId(topic_id),
                                        !.rec = child.rec, !.msg_id = child.id,
                                        !.date = child.date, !.reply = TRUE,
                                        !.under = Head(order).id])
           /\ IF resp.body = "unreachable"
              THEN Raise("ConnectionError") /\ UNCHANGED <<order, children>>
              ELSE IF _http(resp, FALSE) = "response"
              THEN Raise("AttributeError") /\ UNCHANGED <<order, children>>
              ELSE /\ children' = Tail(children)
                   /\ order' = (IF children' = <<>> THEN Tail(order) ELSE order)
                   /\ pc' = (IF children' # <<>> THEN "child_loop"
                             ELSE IF order' = <<>>
                             THEN RunAfter("create_topics", missing_users)
                             ELSE "topic_loop")
                   /\ UNCHANGED error
    /\ UNCHANGED <<config, fields, users_locals, topic_id>>

\* Importer.run
Next ==
    \/ connect
    \/ ping
    \/ read_mbox
    \/ get_users
    \/ get_user_email
    \/ set_missing_users
    \/ add_missing_users
    \/ next_user
    \/ redraw
    \/ create_user
    \/ create_topics
    \/ create_topic
    \/ create_reply

Spec == Init /\ [][Next]_vars

(***************************************************************************)
(* What the claims speak of.                                               *)
(***************************************************************************)
UserCalls  == {i \in DOMAIN calls : calls[i].op = "createUser"}
TopicCalls == {i \in DOMAIN calls : calls[i].op = "createTopic" /\ ~calls[i].reply}
ReplyCalls == {i \in DOMAIN calls : calls[i].op = "createTopic" /\ calls[i].reply}

\* The order of Python's str comparison on the ids of the model.
IdRank(id) == CASE id = "m1" -> 1 [] id = "m2" -> 2 [] id = "m3" -> 3 [] OTHER -> 0

\* Every remote call so far got the response it needs.
NoCallFailed == \A i \in DOMAIN calls : ~calls[i].failed

\* read_mbox has run: the health check went through and run() has left
\* read_mbox.
ReadMboxRan == Len(calls) >= 2 /\ ~calls[2].failed /\ pc # "read_mbox"

\* read_mbox has run and returned.
ReadMboxReturned == ReadMboxRan /\ (Len(calls) = 2 => pc = "set_missing_users")

(***************************************************************************)
(* C1.  During replay the topics of the roots are created in ascending     *)
(* order of message id: of two roots, the one with the smaller id has its  *)
(* createTopic call issued first, whatever their dates are.                *)
(* As stated this fails, in runs without a failed call too: line 386      *)
(* sorts by Message, and Message.__lt__ compares dates.                    *)
(***************************************************************************)
C1_RootsInIdOrder ==
    NoCallFailed =>
        \A i, j \in TopicCalls :
            i < j => ~(IdRank(calls[j].msg_id) < IdRank(calls[i].msg_id))

\* C1 as amended: the topics of the roots are created in ascending order of
\* message date: of two roots, one with the earlier date has its createTopic
\* call issued first, whatever their ids are.
C1_RootsInDateOrder ==
    \A i, j \in TopicCalls : i < j => calls[i].date <= calls[j].date

\* Two topics have been created, the earlier-dated first, of the root with
\* the larger id.
C1_Witness ==
    \E i, j \in TopicCalls :
        /\ i < j
        /\ calls[i].date < calls[j].date
        /\ IdRank(calls[j].msg_id) < IdRank(calls[i].msg_id)

(***************************************************************************)
(* C2.  A remote call that fails (a status that is not a success, or a     *)
(* malformed body) ends the run: no remote call is issued after a failed   *)
(* one, and the run does not reach Done.                                   *)
(***************************************************************************)
C2_FailedCallEndsRun ==
    \A i \in DOMAIN calls :
        calls[i].failed => i = Len(calls) /\ pc # "done"

(***************************************************************************)
(* C3.  Username allocation always finishes: the suffix loop finds a free  *)
(* suffixed name or, when every suffix of the range is taken for the base  *)
(* name, ends in a fatal allocation failure.  So whenever the loop of      *)
(* lines 368-369 is running, some suffix of the range is free: with none   *)
(* free the code would have to have failed, and it can only draw again.    *)
(* Stated of the runs without a failed call.                               *)
(***************************************************************************)
C3_SuffixLoopCanEnd ==
    NoCallFailed /\ pc = "suffix_loop" =>
        \E s \in rand_suffix :
            Suffixed(_get_username(Head(todo)), s) \notin used

(***************************************************************************)
(* C4.  run() issues its remote calls in the order of the driver's stages: *)
(* connect, then the health check, then the user listing and the email     *)
(* lookups, then every createUser, then every createTopic; no stage is     *)
(* gone back to, and createUser is called only when there are missing      *)
(* users.                                                                  *)
(***************************************************************************)
Stage(op) ==
    CASE op = "connect" -> 1
      [] op = "healthCheck" -> 2
      [] op = "listActiveUsers" -> 3
      [] op = "getUserEmail" -> 4
      [] op = "createUser" -> 5
      [] op = "createTopic" -> 6

C4_StageOrder ==
    /\ \A i, j \in DOMAIN calls :
          i < j => /\ Stage(calls[i].op) <= Stage(calls[j].op)
                   /\ Stage(calls[j].op) <= 3 => Stage(calls[i].op) < Stage(calls[j].op)
    /\ \A j \in DOMAIN calls :
          /\ Stage(calls[j].op) > 1 => calls[1].op = "connect"
          /\ Stage(calls[j].op) > 2 => calls[2].op = "healthCheck"
          /\ Stage(calls[j].op) > 3 => calls[3].op = "listActiveUsers"
    /\ UserCalls # {} => missing_users # {}

\* A run that went through every stage: it is done, having looked up an
\* email, created a user and created a topic.
C4_Witness ==
    /\ pc = "done"
    /\ \E i \in DOMAIN calls : calls[i].op = "getUserEmail"
    /\ UserCalls # {}
    /\ TopicCalls # {}

(***************************************************************************)
(* C5.  Every Message of the mbox build (every entry of the flat map and   *)
(* every element of a children list after read_mbox) has a non-empty id    *)
(* and a non-empty body, records without Message-ID header included.       *)
(* Stated of the runs without a failed call.                               *)
(***************************************************************************)
NonEmptyIdAndBody(m) == m.id # None /\ m.id # "" /\ m.body # <<>>

C5_MessagesHaveIdAndBody ==
    NoCallFailed /\ ReadMboxRan =>
        \A i \in DOMAIN mbox_messages :
            /\ NonEmptyIdAndBody(mbox_messages[i])
            /\ \A k \in DOMAIN mbox_messages[i].children :
                  NonEmptyIdAndBody(mbox_messages[i].children[k])

(***************************************************************************)
(* C6.  from_mbox_object returns None, and raises nothing, in each case of *)
(* rejection, whatever the record and the filter: when the record has no   *)
(* Subject header (the exclusion filter empty or not), when the subject    *)
(* holds the non-empty exclusion filter, when the decoded body is empty    *)
(* once trimmed.  In every other case it returns a Message.  Stated of the *)
(* records the second pass has parsed (those of eligible senders), in the  *)
(* runs without a failed call.                                             *)
(***************************************************************************)
Rejected(raw) ==
    \/ raw.Subject = NoneSeq
    \/ skip_subject # <<>> /\ Contains(raw.Subject, skip_subject)
    \/ get_body(raw, list_footer_start).body = <<>>

C6_RejectionsReturnNone ==
    NoCallFailed /\ ReadMboxRan =>
        \A i \in DOMAIN mbox :
            LET from_ == _get_name_from(mbox[i])[2]
                r     == from_mbox_object(mbox[i], from_, list_footer_start, skip_subject)
            IN from_ \in DOMAIN mbox_users =>
                  IF Rejected(mbox[i]) THEN r.kind = "none" ELSE r.kind = "msg"

(***************************************************************************)
(* C7.  Collision policy: when two or more missing emails share a local    *)
(* part, each of them is given that candidate followed by a numeric suffix *)
(* of the range; two emails of one group get different user names, and no  *)
(* name is one already in the used set when it is allocated.               *)
(* As stated this fails, in runs without a failed call too: a suffixed     *)
(* name shorter than three characters is sent with '123' behind it (lines  *)
(* 374-375).                                                               *)
(***************************************************************************)
Candidate(i) == SplitFirst(calls[i].email, "@")

\* The createUser calls for the emails of a collision group.
DupCalls ==
    {i \in UserCalls :
        \E e \in missing_users :
            e # calls[i].email /\ SplitFirst(e, "@") = Candidate(i)}

C7_SuffixedNames ==
    NoCallFailed =>
        \A i \in DupCalls :
            /\ \E s \in rand_suffix : calls[i].user_name = Candidate(i) \o Str(s)
            /\ \A j \in DupCalls : j < i => calls[j].user_name # calls[i].user_name

\* The name line 371 gave the email of call i.
SuffixedName(i) == Candidate(i) \o Str(calls[i].suffix)

\* C7 as amended: each email of a collision group is given the candidate
\* followed by a numeric suffix of the range, and then by '123' when that
\* suffixed name is shorter than three characters; the suffixed name is not
\* in the used set when it is allocated (the used set holding the suffixed
\* names allocated before), and two emails of one group get different user
\* names.
C7_SuffixedThenPadded ==
    /\ \A i \in DupCalls :
          /\ calls[i].suffix \in rand_suffix
          /\ calls[i].user_name =
                (IF Len(SuffixedName(i)) < 3
                 THEN SuffixedName(i) \o <<"1", "2", "3">> ELSE SuffixedName(i))
          /\ \A j \in DupCalls :
                /\ j < i => SuffixedName(j) # SuffixedName(i)
                /\ j # i /\ Candidate(j) = Candidate(i) =>
                      calls[j].user_name # calls[i].user_name
    /\ pc \in {"user_loop", "suffix_loop", "create_user"} =>
          used = {SuffixedName(i) : i \in DupCalls}

\* Two accounts of one collision group have been created.
C7_Witness ==
    \E i, j \in DupCalls : i < j /\ Candidate(i) = Candidate(j)

(***************************************************************************)
(* C8.  Replay of a thread: the root's topic is created first, then every  *)
(* child of the root's children list is posted exactly once, in ascending  *)
(* order of timestamp, each reply carrying as parent topic id the id the   *)
(* root's topic creation returned; no child is posted without a parent     *)
(* topic id.                                                               *)
(***************************************************************************)
\* The call that created the topic of the root whose child call j posts.
RootCallOf(j) == CHOOSE i \in TopicCalls : i < j /\ \A k \in TopicCalls : k < j => k <= i

RepliesOf(i) == {j \in ReplyCalls : RootCallOf(j) = i}

ChildrenOf(id) ==
    LET e == CHOOSE e \in DOMAIN mbox_messages : mbox_messages[e].id = id
    IN mbox_messages[e].children

C8_RepliesUnderRootTopic ==
    /\ \A j \in ReplyCalls :
          /\ \E i \in TopicCalls : i < j
          /\ calls[j].topic_id # NoTopic
          /\ calls[RootCallOf(j)].resp.body = "post"
          /\ calls[j].topic_id = calls[RootCallOf(j)].resp.topic_id
    /\ \A j, k \in ReplyCalls :
          j < k /\ RootCallOf(j) = RootCallOf(k) => calls[j].date <= calls[k].date
    /\ pc = "done" =>
          \A i \in TopicCalls :
              Cardinality(RepliesOf(i)) = Len(ChildrenOf(calls[i].msg_id))

(***************************************************************************)
(* C9.  Fan-out: a record whose References header has k lines matching     *)
(* keys of the flat map is appended k times as a child, once for each      *)
(* matching line, to the children of the matched entry; at replay it is    *)
(* posted as a reply once for each match whose entry is a root, and never  *)
(* for a match whose entry is not.                                         *)
(* As stated this fails, in runs without a failed call too: the third pass *)
(* parses the record again and appends nothing when from_mbox_object       *)
(* rejects it.                                                             *)
(***************************************************************************)
\* The lines of the record's References header that are the key id.
Matches(raw, id) ==
    IF id = None THEN 0
    ELSE Cardinality({k \in DOMAIN raw.References : Strip(raw.References[k]) = <<id>>})

\* How often the record at place r is among the children of entry e.
Attached(e, r) ==
    Cardinality({k \in DOMAIN mbox_messages[e].children :
                    mbox_messages[e].children[k].rec = r})

\* How often the child loop posted the record at place r under the root id.
Posted(r, id) ==
    Cardinality({j \in ReplyCalls : calls[j].rec = r /\ calls[j].under = id})

PostedAsReply(r, id) ==
    Cardinality({j \in ReplyCalls : /\ calls[j].rec = r /\ calls[j].under = id
                                    /\ calls[j].topic_id # NoTopic})

C9_AttachedOncePerMatch ==
    NoCallFailed =>
    \A r \in DOMAIN mbox : \A e \in DOMAIN mbox_messages :
        LET m == mbox_messages[e]
        IN /\ ReadMboxReturned => Attached(e, r) = Matches(mbox[r], m.id)
           /\ pc = "done" =>
                 PostedAsReply(r, m.id) =
                     (IF m.is_top_level THEN Matches(mbox[r], m.id) ELSE 0)

\* from_mbox_object makes a Message of the record.
Parses(raw) ==
    from_mbox_object(raw, _get_name_from(raw), list_footer_start,
                     skip_subject).kind = "msg"

\* C9 as amended: a record that from_mbox_object makes a Message of, and
\* whose References header has k lines matching keys of the flat map, is
\* appended k times as a child, once for each matching line, to the
\* children of the matched entry (a record it rejects is appended nowhere);
\* when the replay has run to its end, the child loop has posted the record
\* once for each match whose entry is a root, and never for a match whose
\* entry is not.
C9_ParsedAttachedOncePerMatch ==
    \A r \in DOMAIN mbox : \A e \in DOMAIN mbox_messages :
        LET m == mbox_messages[e]
            k == IF Parses(mbox[r]) THEN Matches(mbox[r], m.id) ELSE 0
        IN /\ ReadMboxReturned => Attached(e, r) = k
           /\ pc = "done" => Posted(r, m.id) = (IF m.is_top_level THEN k ELSE 0)

\* The replay is through; a record matched a root and an entry that is not
\* a root, was attached to both, and posted under the root.
C9_Witness ==
    /\ pc = "done"
    /\ \E r \in DOMAIN mbox : \E e, f \in DOMAIN mbox_messages :
          /\ mbox_messages[e].is_top_level /\ ~mbox_messages[f].is_top_level
          /\ Attached(e, r) >= 1 /\ Attached(f, r) >= 1
          /\ Posted(r, mbox_messages[e].id) >= 1

(***************************************************************************)
(* C10.  The user names passed to createUser in one run are pairwise       *)
(* distinct over the whole set of missing users: a suffixed name never     *)
(* equals the candidate of another missing email, and a short name padded  *)
(* with '123' never equals another allocated name.  Stated of the runs     *)
(* without a failed call.                                                  *)
(***************************************************************************)
C10_UserNamesDistinct ==
    NoCallFailed =>
        \A i, j \in UserCalls : i # j => calls[i].user_name # calls[j].user_name

(***************************************************************************)
(* C11.  No message of a sender the author pass skipped is ever replayed:  *)
(* for every record whose sender is in emails_ignore or does not hold      *)
(* emails_require, no createTopic call, as a topic or as a reply, carries  *)
(* that record's content, even when its References header names a known    *)
(* id.  Stated of the runs without a failed call.                          *)
(***************************************************************************)
\* The sender of the record at place r was skipped by the first pass.
SkippedSender(r) ==
    SenderSkipped(_get_name_from(mbox[r])[2], emails_ignore, emails_require)

C11_SkippedSenderNeverReplayed ==
    NoCallFailed =>
        \A j \in TopicCalls \cup ReplyCalls : ~SkippedSender(calls[j].rec)

====
